---- MODULE Spec2Model ----
(***************************************************************************)
(* Model of internal/provider/data_source_docker_registry_image.go of      *)
(* terraform-provider-docker: the docker_registry_image data source, which *)
(* resolves the digest of an image tag by talking to a registry.           *)
(*                                                                         *)
(* A Go string is a sequence of one-character strings, so that the string  *)
(* functions the code calls (HasPrefix, Contains, Replace, Split, SplitN,  *)
(* Trim) and the encodings (base64, %x) are computed as the code computes  *)
(* them.  One lookup is a process whose program counter walks through      *)
(* dataSourceDockerRegistryImageRead and the two calls of getImageDigest;  *)
(* the registry and the token endpoint are the environment, which answers  *)
(* every request with any response of a small set.  SpecNorm runs the      *)
(* normalization of the reference alone, over more references; SpecConc    *)
(* runs a second lookup beside the first, the two sharing the transport of *)
(* http.DefaultClient.                                                     *)
(***************************************************************************)
EXTENDS Integers, Sequences, FiniteSets, TLC

----------------------------------------------------------------------------
(* Bounds of the model *)

\* number of distinct bearer tokens the token endpoint can hand out
MaxTokens == 2

----------------------------------------------------------------------------
(* State *)

VARIABLES
    name,                 \* d.Get("name")
    insecure_skip_verify, \* d.Get("insecure_skip_verify")
    authConfig,           \* the credential store's entry for the registry
    id,                   \* d.Id(), empty while unset
    sha256_digest,        \* the computed attribute, empty while unset
    diags,                \* the diagnostics Read returned, none without error
    pc,                   \* where the lookup stands
    pullOpts,             \* Read: the parsed and normalized reference
    username, password,   \* Read: the resolved credentials
    fallback,             \* getImageDigest: the legacy media type flag
    req,                  \* getImageDigest: the manifest request
    tokenRequest,         \* getImageDigest: the token request
    token,                \* getImageDigest: the decoded TokenResponse.Token
    digest, err,          \* what the last getImageDigest call returned
    transport,            \* http.DefaultClient.Transport: InsecureSkipVerify
    exchanges,            \* history: every client.Do call and its answer
    returned,             \* history: what each getImageDigest call returned
    peer                  \* a second lookup that shares http.DefaultClient

vars ==
    <<name, insecure_skip_verify, authConfig, id, sha256_digest, diags, pc,
      pullOpts, username, password, fallback, req, tokenRequest, token,
      digest, err, transport, exchanges, returned, peer>>

inputs == <<name, insecure_skip_verify, authConfig>>
readLocals == <<pullOpts, username, password>>
outputs == <<id, sha256_digest, diags>>

----------------------------------------------------------------------------
(* Go strings: package strings *)

\* s[from..] in Go's terms (1-based here)
Drop(s, n) == SubSeq(s, n + 1, Len(s))

Take(s, n) == SubSeq(s, 1, n)

\* strings.HasPrefix
HasPrefix(s, prefix) ==
    Len(s) >= Len(prefix) /\ Take(s, Len(prefix)) = prefix

\* strings.HasSuffix
HasSuffix(s, suffix) ==
    Len(s) >= Len(suffix) /\ Drop(s, Len(s) - Len(suffix)) = suffix

\* strings.Index, 1-based; 0 when substr does not occur (Go: -1)
Index(s, substr) ==
    LET hits == {i \in 1..(Len(s) - Len(substr) + 1) :
                    SubSeq(s, i, i + Len(substr) - 1) = substr}
    IN  IF hits = {} THEN 0 ELSE CHOOSE i \in hits : \A j \in hits : i <= j

\* strings.LastIndex, 1-based; 0 when substr does not occur
LastIndex(s, substr) ==
    LET hits == {i \in 1..(Len(s) - Len(substr) + 1) :
                    SubSeq(s, i, i + Len(substr) - 1) = substr}
    IN  IF hits = {} THEN 0 ELSE CHOOSE i \in hits : \A j \in hits : i >= j

\* strings.Contains
Contains(s, substr) == Index(s, substr) # 0

\* strings.Replace(s, old, new, 1) for a non-empty old
ReplaceFirst(s, old, new) ==
    LET i == Index(s, old)
    IN  IF i = 0 THEN s
        ELSE Take(s, i - 1) \o new \o Drop(s, i - 1 + Len(old))

\* strings.SplitN(s, sep, 2) for a non-empty sep
SplitN2(s, sep) ==
    LET i == Index(s, sep)
    IN  IF i = 0 THEN <<s>>
        ELSE <<Take(s, i - 1), Drop(s, i - 1 + Len(sep))>>

\* strings.Split(s, sep) for a non-empty sep
RECURSIVE Split(_, _)
Split(s, sep) ==
    LET i == Index(s, sep)
    IN  IF i = 0 THEN <<s>>
        ELSE <<Take(s, i - 1)>> \o Split(Drop(s, i - 1 + Len(sep)), sep)

RECURSIVE TrimLeft(_, _)
TrimLeft(s, cutset) ==
    IF s # <<>> /\ s[1] \in cutset THEN TrimLeft(Drop(s, 1), cutset) ELSE s

RECURSIVE TrimRight(_, _)
TrimRight(s, cutset) ==
    IF s # <<>> /\ s[Len(s)] \in cutset
    THEN TrimRight(Take(s, Len(s) - 1), cutset) ELSE s

\* strings.Trim(s, cutset), the cutset given as a set of characters
Trim(s, cutset) == TrimRight(TrimLeft(s, cutset), cutset)

----------------------------------------------------------------------------
(* Bytes and encodings *)

\* the printable ASCII characters 32..95 and 97..126
AsciiLow == <<" ","!","\"","#","$","%","&","'","(",")","*","+",",","-",".","/","0","1","2","3","4","5","6","7","8","9",":",";","<","=",">","?","@","A","B","C","D","E","F","G","H","I","J","K","L","M","N","O","P","Q","R","S","T","U","V","W","X","Y","Z","[","\\","]","^","_">>
AsciiHigh == <<"a","b","c","d","e","f","g","h","i","j","k","l","m","n","o","p","q","r","s","t","u","v","w","x","y","z","{","|","}","~">>

\* a control character, as it may appear in a reference or a header
Tab == "\t"

\* the byte of each character
ByteOf ==
    [c \in {Tab} \cup {AsciiLow[i] : i \in 1..Len(AsciiLow)}
            \cup {AsciiHigh[i] : i \in 1..Len(AsciiHigh)} |->
        IF c = Tab THEN 9
        ELSE IF \E i \in 1..Len(AsciiLow) : AsciiLow[i] = c
             THEN 31 + (CHOOSE i \in 1..Len(AsciiLow) : AsciiLow[i] = c)
             ELSE 96 + (CHOOSE i \in 1..Len(AsciiHigh) : AsciiHigh[i] = c)]

Ord(c) == ByteOf[c]

\* []byte(s)

Bytes(s) == [i \in 1..Len(s) |-> Ord(s[i])]

Base64Alphabet ==
    <<"A","B","C","D","E","F","G","H","I","J","K","L","M","N","O","P","Q","R","S","T","U","V","W","X","Y","Z","a","b","c","d","e","f","g","h","i","j","k","l","m","n","o","p","q","r","s","t","u","v","w","x","y","z","0","1","2","3","4","5","6","7","8","9","+","/">>

\* b64.StdEncoding.EncodeToString: 3 bytes to 4 characters, "=" padding
RECURSIVE EncodeToString(_)
EncodeToString(b) ==
    LET E(n) == Base64Alphabet[n + 1]
    IN  IF Len(b) = 0 THEN <<>>
        ELSE IF Len(b) = 1 THEN
            <<E(b[1] \div 4), E((b[1] % 4) * 16), "=", "=">>
        ELSE IF Len(b) = 2 THEN
            <<E(b[1] \div 4), E(((b[1] % 4) * 16) + (b[2] \div 16)),
              E((b[2] % 16) * 4), "=">>
        ELSE
            <<E(b[1] \div 4), E(((b[1] % 4) * 16) + (b[2] \div 16)),
              E(((b[2] % 16) * 4) + (b[3] \div 64)), E(b[3] % 64)>>
            \o EncodeToString(Drop(b, 3))

HexDigits == <<"0","1","2","3","4","5","6","7","8","9","a","b","c","d","e","f">>
UpperHexDigits == <<"0","1","2","3","4","5","6","7","8","9","A","B","C","D","E","F">>

\* the %X verb in place of %x
RECURSIVE FormatHex_Upper(_)
FormatHex_Upper(b) ==
    IF Len(b) = 0 THEN <<>>
    ELSE <<UpperHexDigits[(b[1] \div 16) + 1],
           UpperHexDigits[(b[1] % 16) + 1]>>
         \o FormatHex_Upper(Drop(b, 1))

\* the %x verb of a byte array: two lowercase hex digits per byte
RECURSIVE FormatHex(_)
FormatHex(b) ==
    IF Len(b) = 0 THEN <<>>
    ELSE <<HexDigits[(b[1] \div 16) + 1], HexDigits[(b[1] % 16) + 1]>>
         \o FormatHex(Drop(b, 1))

----------------------------------------------------------------------------
(* What the registry can send *)

\* manifest bodies
BodySchema2 == <<"{","\"","s","c","h","e","m","a","V","e","r","s","i","o","n","\"",":","2","}">>
BodySchema1 == <<"{","\"","s","c","h","e","m","a","V","e","r","s","i","o","n","\"",":","1","}">>
Bodies == {BodySchema2, BodySchema1, <<>>}

\* sha256.Sum256, tabulated on the bodies of the model (the real digests)
Sum256(body) ==
    CASE body = BodySchema2 ->
           <<186,254,189,54,24,154,211,104,139,123,57,21,234,85,212,97,
             224,191,207,189,222,17,229,75,10,18,57,153,251,107,229,15>>
      [] body = BodySchema1 ->
           <<14,149,97,207,184,61,80,153,10,16,59,56,150,254,36,154,
             17,254,39,250,40,152,84,72,24,127,147,236,18,17,109,114>>
      [] body = <<>> ->
           <<227,176,196,66,152,252,28,20,154,251,244,200,153,111,185,36,
             39,174,65,228,100,155,147,76,164,149,153,27,120,82,184,85>>


\* Docker-Content-Digest values: absent, the canonical digest of BodySchema2,
\* and a value that is not of the form sha256:<64 lowercase hex>
DigestOfSchema2 ==
    <<"s","h","a","2","5","6",":","b","a","f","e","b","d","3","6","1","8","9","a","d","3","6","8","8","b","7","b","3","9","1","5","e","a","5","5","d","4","6","1","e","0","b","f","c","f","b","d","d","e","1","1","e","5","4","b","0","a","1","2","3","9","9","9","f","b","6","b","e","5","0","f">>
DigestHeaders == {<<>>, DigestOfSchema2, <<"s","h","a","5","1","2",":","D","E","A","D","B","E","E","F">>}

\* WWW-Authenticate values of a 401
ChallengeFull ==
    <<"B","e","a","r","e","r"," ","r","e","a","l","m","=","\"","h","t","t","p","s",":","/","/","a","u","t","h",".","e","x","a","m","p","l","e","/","t","o","k","e","n","\"",",","s","e","r","v","i","c","e","=","\"","r","e","g","i","s","t","r","y",".","e","x","a","m","p","l","e","\"",",","s","c","o","p","e","=","\"","r","e","p","o","s","i","t","o","r","y",":","f","o","o","/","b","a","r",":","p","u","l","l","\"">>
ChallengeBasic == <<"B","a","s","i","c"," ","r","e","a","l","m","=","\"","r","e","g","i","s","t","r","y","\"">>
ChallengeNoRealm == <<"B","e","a","r","e","r"," ","s","e","r","v","i","c","e","=","\"","r","e","g","i","s","t","r","y",".","e","x","a","m","p","l","e","\"">>
ChallengeBare == <<"B","e","a","r","e","r">>
ChallengeNoEquals == <<"B","e","a","r","e","r"," ","r","e","a","l","m","=","\"","h","t","t","p","s",":","/","/","a","u","t","h",".","e","x","a","m","p","l","e","/","t","o","k","e","n","\"",",","s","e","r","v","i","c","e">>
ChallengeQuotedComma ==
    <<"B","e","a","r","e","r"," ","r","e","a","l","m","=","\"","h","t","t","p","s",":","/","/","a","u","t","h",".","e","x","a","m","p","l","e","/","t","o","k","e","n","\"",",","s","c","o","p","e","=","\"","r","e","p","o","s","i","t","o","r","y",":","f","o","o",":","p","u","l","l",",","p","u","s","h","\"">>
ChallengeControl == <<"B","e","a","r","e","r"," ","r","e","a","l","m","=","\"","h","t","t","p","s",":","/","/","a","u","t","h",".","e","x","a","m","p","l","e","/","\t","\"">>
Challenges ==
    {<<>>, ChallengeBasic, ChallengeFull, ChallengeNoRealm, ChallengeBare,
     ChallengeNoEquals, ChallengeQuotedComma, ChallengeControl}

\* the i-th token of the token endpoint
Token(i) == <<"t","o","k">> \o <<HexDigits[i + 1]>>

\* bodies of the token endpoint: a token, an object without a token field,
\* an object whose key differs in case, and text that is not JSON
TokenBodies ==
    {<<"{","\"","t","o","k","e","n","\"",":","\"">> \o Token(i) \o <<"\"","}">> : i \in 1..MaxTokens}
    \cup {<<"{","}">>, <<"{","\"","T","o","k","e","n","\"",":","\"","t","o","k","T","\"","}">>, <<"{","\"","a","c","c","e","s","s","_","t","o","k","e","n","\"",":","\"","t","o","k","A","\"","}">>, <<"<","h","t","m","l",">">>}

----------------------------------------------------------------------------
(* parseImageOptions: the Reference Parser, rules 1 and 2 of its section.  *)
(* Its code is not part of the source file of this model.                  *)

parseImageOptions(image) ==
    LET slash  == LastIndex(image, <<"/">>)
        after  == Drop(image, slash)
        colon  == Index(after, <<":">>)
        tag    == IF colon = 0 THEN <<>> ELSE Drop(after, colon)
        rest   == IF colon = 0 THEN image ELSE Take(image, slash + colon - 1)
        first  == Index(rest, <<"/">>)
        seg    == Take(rest, first - 1)
        isHost == first # 0 /\ (Contains(seg, <<".">>) \/ Contains(seg, <<":">>))
    IN  [Registry   |-> IF isHost THEN seg ELSE <<>>,
         Repository |-> IF isHost THEN Drop(rest, first) ELSE rest,
         Tag        |-> tag]

----------------------------------------------------------------------------
(* dataSourceDockerRegistryImageRead: normalization of the parsed reference *)

DefaultRegistry == <<"r","e","g","i","s","t","r","y","-","1",".","d","o","c","k","e","r",".","i","o">>

\* the registry defaulted, or filtered out of the repository name
NormalizeRegistry(opts) ==
    IF opts.Registry = <<>>
    THEN [opts EXCEPT !.Registry = DefaultRegistry]
    ELSE [opts EXCEPT !.Repository =
              ReplaceFirst(opts.Repository, opts.Registry \o <<"/">>, <<>>)]

\* library/ prepended whatever the repository holds
NormalizeLibrary_NoSlashCheck(opts) ==
    IF opts.Registry = DefaultRegistry
    THEN [opts EXCEPT !.Repository = <<"l","i","b","r","a","r","y","/">> \o opts.Repository]
    ELSE opts

\* official images of the Docker Hub live under library/
NormalizeLibrary(opts) ==
    IF opts.Registry = DefaultRegistry
       /\ ~Contains(opts.Repository, <<"/">>)
    THEN [opts EXCEPT !.Repository = <<"l","i","b","r","a","r","y","/">> \o opts.Repository]
    ELSE opts

NormalizeTag(opts) ==
    IF opts.Tag = <<>> THEN [opts EXCEPT !.Tag = <<"l","a","t","e","s","t">>] ELSE opts

Normalize(opts) == NormalizeTag(NormalizeLibrary(NormalizeRegistry(opts)))

----------------------------------------------------------------------------
(* parseAuthHeader *)

\* one part of the challenge: key and trimmed value; vals[1] of the code is
\* out of range (a run-time panic) when the part has no "="
parseAuthPart(part) ==
    LET vals == SplitN2(part, <<"=">>)
    IN  IF Len(vals) < 2
        THEN [panic |-> TRUE, key |-> vals[1], val |-> <<>>]
        ELSE [panic |-> FALSE, key |-> vals[1],
              val |-> Trim(vals[2], {"\"", ",", " "})]

\* the map of the key/value pairs of a WWW-Authenticate header, a later
\* part overwriting an earlier one of the same key; the function panics
\* when the header has no space (parts[1] out of range) or a part has no "="
parseAuthHeader(header) ==
    LET scheme == SplitN2(header, <<" ">>)
    IN  IF Len(scheme) < 2 THEN [panic |-> TRUE, opts |-> <<>>]
        ELSE LET parts == Split(scheme[2], <<",">>)
                 kv    == [i \in 1..Len(parts) |-> parseAuthPart(parts[i])]
             IN  IF \E i \in 1..Len(parts) : kv[i].panic
                 THEN [panic |-> TRUE, opts |-> <<>>]
                 ELSE [panic |-> FALSE,
                       opts  |->
                         [k \in {kv[i].key : i \in 1..Len(parts)} |->
                            LET last == CHOOSE i \in 1..Len(parts) :
                                           /\ kv[i].key = k
                                           /\ \A j \in 1..Len(parts) :
                                                 kv[j].key = k => j <= i
                            IN  kv[last].val]]

\* auth[key] of a Go map: the zero value for a missing key
MapGet(opts, key) == IF key \in DOMAIN opts THEN opts[key] ELSE <<>>

----------------------------------------------------------------------------
(* net/url and net/http as getImageDigest uses them *)

Unreserved ==
    {AsciiHigh[i] : i \in 1..26}
    \cup {c \in {AsciiLow[i] : i \in 1..Len(AsciiLow)} :
             Ord(c) \in 48..57 \/ Ord(c) \in 65..90}
    \cup {"-", "_", ".", "~"}

\* url.QueryEscape
RECURSIVE QueryEscape(_)
QueryEscape(s) ==
    IF s = <<>> THEN <<>>
    ELSE (IF s[1] \in Unreserved THEN <<s[1]>>
          ELSE IF s[1] = " " THEN <<"+">>
          ELSE <<"%", UpperHexDigits[(Ord(s[1]) \div 16) + 1],
                      UpperHexDigits[(Ord(s[1]) % 16) + 1]>>)
         \o QueryEscape(Drop(s, 1))

\* url.Values{"service": .., "scope": ..}.Encode(): sorted by key
EncodeParams(service, scope) ==
    <<"s","c","o","p","e","=">> \o QueryEscape(scope) \o <<"&","s","e","r","v","i","c","e","=">> \o QueryEscape(service)

\* http.NewRequest fails on a URL that url.Parse rejects: here, one with a
\* control character
NewRequestFails(url) == \E i \in 1..Len(url) : url[i] = Tab

\* client.Do fails without sending when the URL has no http(s) scheme
UnsupportedScheme(url) ==
    ~(HasPrefix(url, <<"h","t","t","p","s",":","/","/">>) \/ HasPrefix(url, <<"h","t","t","p",":","/","/">>))

\* req.SetBasicAuth
BasicAuth(user, pass) ==
    <<"B","a","s","i","c"," ">> \o EncodeToString(Bytes(user \o <<":">> \o pass))

\* Header.Add and Header.Set on the values of one key
HeaderAdd(values, v) == Append(values, v)
HeaderSet(values, v) == <<v>>

MediaManifestV2 == <<"a","p","p","l","i","c","a","t","i","o","n","/","v","n","d",".","d","o","c","k","e","r",".","d","i","s","t","r","i","b","u","t","i","o","n",".","m","a","n","i","f","e","s","t",".","v","2","+","j","s","o","n">>
MediaManifestListV2 == <<"a","p","p","l","i","c","a","t","i","o","n","/","v","n","d",".","d","o","c","k","e","r",".","d","i","s","t","r","i","b","u","t","i","o","n",".","m","a","n","i","f","e","s","t",".","l","i","s","t",".","v","2","+","j","s","o","n">>
MediaOCIManifest == <<"a","p","p","l","i","c","a","t","i","o","n","/","v","n","d",".","o","c","i",".","i","m","a","g","e",".","m","a","n","i","f","e","s","t",".","v","1","+","j","s","o","n">>
MediaOCIIndex == <<"a","p","p","l","i","c","a","t","i","o","n","/","v","n","d",".","o","c","i",".","i","m","a","g","e",".","i","n","d","e","x",".","v","1","+","j","s","o","n">>
MediaLegacy == <<"a","p","p","l","i","c","a","t","i","o","n","/","v","n","d",".","d","o","c","k","e","r",".","d","i","s","t","r","i","b","u","t","i","o","n",".","m","a","n","i","f","e","s","t",".","v","1","+","p","r","e","t","t","y","j","w","s">>

\* a token decoded earlier kept and sent again
InitialAuthorization_Cached(registry, user, pass) ==
    IF token # <<>> THEN <<<<"B","e","a","r","e","r"," ">> \o token>>
    ELSE IF user = <<>> THEN <<>>
    ELSE IF registry # <<"g","h","c","r",".","i","o">> THEN <<BasicAuth(user, pass)>>
    ELSE <<<<"B","e","a","r","e","r"," ">> \o EncodeToString(Bytes(pass))>>

\* the Authorization values of the initial manifest request
InitialAuthorization(registry, user, pass) ==
    IF user # <<>>
    THEN IF registry # <<"g","h","c","r",".","i","o">>
         THEN HeaderSet(<<>>, BasicAuth(user, pass))
         ELSE HeaderAdd(<<>>, <<"B","e","a","r","e","r"," ">> \o EncodeToString(Bytes(pass)))
    ELSE <<>>

----------------------------------------------------------------------------
(* Errors: the format string of the fmt.Errorf call and its argument *)

Nil == [msg |-> "", detail |-> ""]

Errorf(msg, detail) == [msg |-> msg, detail |-> detail]

ErrCreating == "Error creating registry request: %s"
ErrDuring == "Error during registry request: %s"
ErrBadResponse == "Got bad response from registry: "
ErrBadCredentials == "Bad credentials: "
ErrReadingToken == "Error reading response body: %s"
ErrParsingToken == "Error parsing OAuth token response: %s"
ErrReadingBody == "Error reading registry response body: %s"

\* the error kinds of the design, by the message that carries them
BadCredentials(e) == e.msg = ErrBadCredentials
RegistryError(e) == e.msg = ErrBadResponse
NetworkError(e) == e.msg = ErrDuring
RequestBuildError(e) == e.msg = ErrCreating
TokenParseError(e) == e.msg = ErrParsingToken
BodyReadError(e) == e.msg \in {ErrReadingToken, ErrReadingBody}

\* err.Error(): the format with its argument filled in.  The text of an
\* error of net/http, net/url, io or encoding/json stands for itself.
ErrorText(e) ==
    (CASE e.msg = ErrCreating -> <<"E","r","r","o","r"," ","c","r","e","a","t","i","n","g"," ","r","e","g","i","s","t","r","y"," ","r","e","q","u","e","s","t",":"," ">>
       [] e.msg = ErrDuring -> <<"E","r","r","o","r"," ","d","u","r","i","n","g"," ","r","e","g","i","s","t","r","y"," ","r","e","q","u","e","s","t",":"," ">>
       [] e.msg = ErrBadResponse -> <<"G","o","t"," ","b","a","d"," ","r","e","s","p","o","n","s","e"," ","f","r","o","m"," ","r","e","g","i","s","t","r","y",":"," ">>
       [] e.msg = ErrBadCredentials -> <<"B","a","d"," ","c","r","e","d","e","n","t","i","a","l","s",":"," ">>
       [] e.msg = ErrReadingToken -> <<"E","r","r","o","r"," ","r","e","a","d","i","n","g"," ","r","e","s","p","o","n","s","e"," ","b","o","d","y",":"," ">>
       [] e.msg = ErrParsingToken -> <<"E","r","r","o","r"," ","p","a","r","s","i","n","g"," ","O","A","u","t","h"," ","t","o","k","e","n"," ","r","e","s","p","o","n","s","e",":"," ">>
       [] e.msg = ErrReadingBody -> <<"E","r","r","o","r"," ","r","e","a","d","i","n","g"," ","r","e","g","i","s","t","r","y"," ","r","e","s","p","o","n","s","e"," ","b","o","d","y",":"," ">>)
    \o (CASE e.detail = "parse" -> <<"p","a","r","s","e">>
          [] e.detail = "transport" -> <<"t","r","a","n","s","p","o","r","t">>
          [] e.detail = "read" -> <<"r","e","a","d">>
          [] e.detail = "syntax" -> <<"s","y","n","t","a","x">>
          [] e.detail = "401 Unauthorized" -> <<"4","0","1"," ","U","n","a","u","t","h","o","r","i","z","e","d">>
          [] e.detail = "403 Forbidden" -> <<"4","0","3"," ","F","o","r","b","i","d","d","e","n">>
          [] e.detail = "404 Not Found" -> <<"4","0","4"," ","N","o","t"," ","F","o","u","n","d">>)

\* diag.Diagnostics: the empty list, or one error with its summary
NoDiags == <<>>

\* diag.Errorf("Got error when attempting to fetch image version %s:%s
\* from registry: %s", repository, tag, err)
FetchError(repository, tag, e) ==
    <<[severity |-> "Error",
       summary  |-> <<"G","o","t"," ","e","r","r","o","r"," ","w","h","e","n"," ","a","t","t","e","m","p","t","i","n","g"," ","t","o"," ","f","e","t","c","h"," ","i","m","a","g","e"," ","v","e","r","s","i","o","n"," ">>
                    \o repository \o <<":">> \o tag \o <<" ","f","r","o","m"," ","r","e","g","i","s","t","r","y",":"," ">>
                    \o ErrorText(e)]>>

\* Response.Status
StatusLine(code) ==
    CASE code = 200 -> "200 OK"
      [] code = 401 -> "401 Unauthorized"
      [] code = 403 -> "403 Forbidden"
      [] code = 404 -> "404 Not Found"

----------------------------------------------------------------------------
(* TokenResponse and json.Unmarshal *)

\* ASCII lower case of a key: encoding/json matches field names without
\* regard to case
RECURSIVE ToLower(_)
ToLower(s) ==
    IF s = <<>> THEN <<>>
    ELSE (IF Ord(s[1]) \in 65..90
          THEN <<AsciiHigh[Ord(s[1]) - 64]>> ELSE <<s[1]>>)
         \o ToLower(Drop(s, 1))

\* json.Unmarshal(body, &TokenResponse{}) on the bodies of the model: the
\* empty object, an object of one string member, or text that is no JSON
Unmarshal(body) ==
    LET inner == SubSeq(body, 3, Len(body) - 2)
        colon == Index(inner, <<"\"",":","\"">>)
        key   == Take(inner, colon - 1)
        val   == Drop(inner, colon + 2)
    IN  IF body = <<"{","}">> THEN [err |-> FALSE, Token |-> <<>>]
        ELSE IF /\ HasPrefix(body, <<"{","\"">>) /\ HasSuffix(body, <<"\"","}">>)
                /\ Len(body) >= 7 /\ colon # 0
                /\ ~Contains(key, <<"\"">>) /\ ~Contains(val, <<"\"">>)
        THEN [err   |-> FALSE,
              Token |-> IF ToLower(key) = <<"t","o","k","e","n">> THEN val ELSE <<>>]
        ELSE [err |-> TRUE, Token |-> <<>>]

----------------------------------------------------------------------------
(* getDigestFromResponse *)

\* the body hashed whether or not the header is there
getDigestFromResponse_HashAlways(response) ==
    IF response.readErr
    THEN [digest |-> <<>>, err |-> Errorf(ErrReadingBody, "read")]
    ELSE [digest |-> <<"s","h","a","2","5","6",":">> \o FormatHex(Sum256(response.body)),
          err    |-> Nil]

\* the digest prefix returned along with the error of reading the body
getDigestFromResponse_Partial(response) ==
    IF response.dcd # <<>> THEN [digest |-> response.dcd, err |-> Nil]
    ELSE IF response.readErr
    THEN [digest |-> <<"s","h","a","2","5","6",":">>, err |-> Errorf(ErrReadingBody, "read")]
    ELSE [digest |-> <<"s","h","a","2","5","6",":">> \o FormatHex(Sum256(response.body)),
          err    |-> Nil]

\* response: [dcd: the Docker-Content-Digest value (empty when absent),
\*            body: the body bytes, readErr: whether reading the body fails]
getDigestFromResponse(response) ==
    LET header == response.dcd
    IN  IF header = <<>>
        THEN IF response.readErr
             THEN [digest |-> <<>>, err |-> Errorf(ErrReadingBody, "read")]
             ELSE [digest |-> <<"s","h","a","2","5","6",":">> \o FormatHex(Sum256(response.body)),
                   err    |-> Nil]
        ELSE [digest |-> header, err |-> Nil]

----------------------------------------------------------------------------
(* The inputs of a lookup and the answers of the network *)

\* the name attribute of the data source
Names == {<<"a","l","p","i","n","e">>, <<"g","h","c","r",".","i","o","/","f","o","o","/","b","a","r",":","v","1">>, <<"c","o","n","s","u","l",":">> \o <<Tab>>}

\* references for the normalization alone: registry, repository and tag
\* parts, each possibly missing (the empty string and "ghcr.io/" are
\* references too), joined as registry/repository:tag
NormRegistries ==
    {<<>>, <<"m","y","r","e","g","i","s","t","r","y",".","c","o","m">>, <<"r","e","g","i","s","t","r","y","-","1",".","d","o","c","k","e","r",".","i","o">>, <<"l","o","c","a","l","h","o","s","t",":","5","0","0","0">>, <<"g","h","c","r",".","i","o">>}
NormRepositories ==
    {<<>>, <<"a","l","p","i","n","e">>, <<"c","o","n","s","u","l">>, <<"f","o","o","/","b","a","r">>, <<"l","i","b","r","a","r","y","/","a","l","p","i","n","e">>,
     <<"x","/","m","y","r","e","g","i","s","t","r","y",".","c","o","m","/","f","o","o">>}
NormTags == {<<>>, <<"1",".","9">>, <<"1",".","2">>, <<"l","a","t","e","s","t">>}
Reference(registry, repository, tag) ==
    (IF registry = <<>> THEN <<>> ELSE registry \o <<"/">>) \o repository
    \o (IF tag = <<>> THEN <<>> ELSE <<":">> \o tag)
NormNames ==
    {Reference(r, p, t) : r \in NormRegistries, p \in NormRepositories,
                          t \in NormTags}

\* the entry of the credential store for the registry of the lookup; a
\* missing entry leaves username and password empty, like an empty entry
AuthConfigs == [Username : {<<>>, <<"u","s","e","r">>}, Password : {<<>>, <<"t","o","k","e","n","P","W">>}]

NoAnswer ==
    [neterr |-> FALSE, status |-> 0, www |-> <<>>, dcd |-> <<>>,
     body |-> <<>>, readErr |-> FALSE]

\* client.Do returned an error instead of a response
TransportError == [NoAnswer EXCEPT !.neterr = TRUE]

\* 200 responses to a manifest request: without digest header any body, or
\* a body that cannot be read; with a digest header a body that is not the
\* one the header names, readable or not
OkAnswers ==
    {[NoAnswer EXCEPT !.status = 200, !.body = b] : b \in Bodies}
    \cup {[NoAnswer EXCEPT !.status = 200, !.readErr = TRUE]}
    \cup {[NoAnswer EXCEPT !.status = 200, !.dcd = h, !.body = BodySchema1,
                           !.readErr = r] :
             h \in DigestHeaders \ {<<>>}, r \in BOOLEAN}

ManifestAnswers ==
    {TransportError, [NoAnswer EXCEPT !.status = 404]}
    \cup {[NoAnswer EXCEPT !.status = 401, !.www = w] : w \in Challenges}
    \cup OkAnswers

\* answers to the manifest request retried with a token
RetryAnswers ==
    {TransportError, [NoAnswer EXCEPT !.status = 404],
     [NoAnswer EXCEPT !.status = 401, !.www = ChallengeFull]}
    \cup OkAnswers

\* answers of the token endpoint; a rejection may carry a JSON body too
TokenAnswers ==
    {TransportError, [NoAnswer EXCEPT !.status = 403],
     [NoAnswer EXCEPT !.status = 403, !.body = <<"{","}">>],
     [NoAnswer EXCEPT !.status = 200, !.readErr = TRUE]}
    \cup {[NoAnswer EXCEPT !.status = 200, !.body = b] : b \in TokenBodies}

NoRequest == [URL |-> <<>>, Authorization |-> <<>>, Accept |-> <<>>]

\* the second lookup: where it stands, its insecure_skip_verify and its
\* fallback flag; "Off" when the lookup of the model runs alone
PeerOff == [pc |-> "Off", skipVerify |-> FALSE, fallback |-> FALSE]

----------------------------------------------------------------------------
(* The state after construction *)

InitLookup(names) ==
    /\ name \in names
    /\ insecure_skip_verify \in BOOLEAN
    /\ authConfig \in AuthConfigs
    /\ id = <<>> /\ sha256_digest = <<>> /\ diags = NoDiags
    /\ pc = "Read"
    /\ pullOpts = [Registry |-> <<>>, Repository |-> <<>>, Tag |-> <<>>]
    /\ username = <<>> /\ password = <<>>
    /\ fallback = FALSE
    /\ req = NoRequest /\ tokenRequest = NoRequest /\ token = <<>>
    /\ digest = <<>> /\ err = Nil
    /\ transport = FALSE
    /\ exchanges = <<>>
    /\ returned = <<>>

\* one lookup alone
InitWith(names) == InitLookup(names) /\ peer = PeerOff

----------------------------------------------------------------------------
(* getImageDigest *)

StatusOK == 200
StatusUnauthorized == 401

ManifestURL(registry, image, tag) ==
    <<"h","t","t","p","s",":","/","/">> \o registry \o <<"/","v","2","/">> \o image \o <<"/","m","a","n","i","f","e","s","t","s","/">> \o tag

\* the legacy type added to the four modern ones
AcceptValues_LegacyAdded(legacy) ==
    LET modern == <<MediaManifestV2, MediaManifestListV2, MediaOCIManifest,
                    MediaOCIIndex>>
    IN  IF legacy THEN HeaderAdd(modern, MediaLegacy) ELSE modern

\* the Accept values: the four modern types added, then replaced by the
\* legacy type when fallback is set
AcceptValues(legacy) ==
    LET modern == HeaderAdd(HeaderAdd(HeaderAdd(HeaderAdd(<<>>,
                      MediaManifestV2), MediaManifestListV2),
                      MediaOCIManifest), MediaOCIIndex)
    IN  IF legacy THEN HeaderSet(modern, MediaLegacy) ELSE modern

\* the case labels of the switch exchanged
IsOK_Swapped(resp) == resp.status = StatusUnauthorized

\* the first case of the switch on the status code
IsOK(resp) == resp.status = StatusOK

\* the status of the token response not checked
TokenOK_Unchecked(resp) == TRUE

\* the status check of the token response
TokenOK(resp) == resp.status = StatusOK

\* the status check of the retried manifest request
RetryOK(resp) == resp.status = StatusOK

\* any challenge taken for a bearer challenge
IsBearerChallenge_AnyScheme(resp) ==
    resp.status = StatusUnauthorized /\ resp.www # <<>>

\* the second case, with a challenge that starts the token handshake
IsBearerChallenge(resp) ==
    resp.status = StatusUnauthorized /\ HasPrefix(resp.www, <<"B","e","a","r","e","r">>)

\* the second case otherwise
IsBadCredentials(resp) ==
    resp.status = StatusUnauthorized /\ ~HasPrefix(resp.www, <<"B","e","a","r","e","r">>)

TokenURL(auth) ==
    MapGet(auth, <<"r","e","a","l","m">>) \o <<"?">>
    \o EncodeParams(MapGet(auth, <<"s","e","r","v","i","c","e">>), MapGet(auth, <<"s","c","o","p","e">>))

\* the Authorization values of the token request
TokenAuthorization(user, pass) ==
    IF user # <<>> THEN HeaderSet(<<>>, BasicAuth(user, pass)) ELSE <<>>

\* the token added to the values the request has
RetryAuthorization_Added(values, tok) == HeaderAdd(values, <<"B","e","a","r","e","r"," ">> \o tok)

\* the Authorization values of the manifest request once the token is set
RetryAuthorization(values, tok) == HeaderSet(values, <<"B","e","a","r","e","r"," ">> \o tok)

\* client.Do(request): the call and its answer enter the history
Do(kind, request, answer) ==
    exchanges' = Append(exchanges,
        [fallback |-> fallback, kind |-> kind, request |-> request,
         skipVerify |-> transport, answer |-> answer])

\* return (d, e) to dataSourceDockerRegistryImageRead
Return(d, e) ==
    /\ digest' = d
    /\ err' = e
    /\ returned' = Append(returned,
                          [fallback |-> fallback, digest |-> d, err |-> e])
    /\ pc' = "Returned"

ReturnDigest(response) ==
    LET r == getDigestFromResponse(response) IN Return(r.digest, r.err)

\* the client's transport is replaced and the manifest request is built
NewManifestRequest ==
    /\ pc = "getImageDigest"
    /\ transport' = insecure_skip_verify
    /\ LET url == ManifestURL(pullOpts.Registry, pullOpts.Repository,
                              pullOpts.Tag)
       IN  IF NewRequestFails(url)
           THEN /\ Return(<<>>, Errorf(ErrCreating, "parse"))
                /\ UNCHANGED req
           ELSE /\ req' = [URL |-> url,
                           Authorization |->
                               InitialAuthorization(pullOpts.Registry,
                                                    username, password),
                           Accept |-> AcceptValues(fallback)]
                /\ pc' = "Do"
                /\ UNCHANGED <<digest, err, returned>>
    /\ UNCHANGED <<peer, inputs, outputs, readLocals, fallback, tokenRequest,
                   token, exchanges>>

\* the manifest request is sent and the switch on its status is taken
DoManifest ==
    /\ pc = "Do"
    /\ \E resp \in ManifestAnswers :
          /\ Do("manifest", req, resp)
          /\ IF resp.neterr
             THEN /\ Return(<<>>, Errorf(ErrDuring, "transport"))
                  /\ UNCHANGED tokenRequest
             ELSE IF IsOK(resp)
             THEN /\ ReturnDigest(resp)
                  /\ UNCHANGED tokenRequest
             ELSE IF IsBearerChallenge(resp)
             THEN LET auth == parseAuthHeader(resp.www)
                      url  == TokenURL(auth.opts)
                  IN  IF auth.panic
                      THEN /\ pc' = "Panicked"
                           /\ UNCHANGED <<tokenRequest, digest, err,
                                          returned>>
                      ELSE IF NewRequestFails(url)
                      THEN /\ Return(<<>>, Errorf(ErrCreating, "parse"))
                           /\ UNCHANGED tokenRequest
                      ELSE /\ tokenRequest' =
                                [URL |-> url,
                                 Authorization |->
                                     TokenAuthorization(username, password),
                                 Accept |-> <<>>]
                           /\ pc' = "DoToken"
                           /\ UNCHANGED <<digest, err, returned>>
             ELSE IF IsBadCredentials(resp)
             THEN /\ Return(<<>>, Errorf(ErrBadCredentials,
                                         StatusLine(resp.status)))
                  /\ UNCHANGED tokenRequest
             ELSE /\ Return(<<>>, Errorf(ErrBadResponse,
                                         StatusLine(resp.status)))
                  /\ UNCHANGED tokenRequest
    /\ UNCHANGED <<peer, inputs, outputs, readLocals, fallback, req, token,
                   transport>>

\* the token request is sent, its answer decoded and the token set on the
\* manifest request
DoToken ==
    /\ pc = "DoToken"
    /\ \E resp \in TokenAnswers :
          /\ UnsupportedScheme(tokenRequest.URL) => resp = TransportError
          /\ Do("token", tokenRequest, resp)
          /\ IF resp.neterr
             THEN /\ Return(<<>>, Errorf(ErrDuring, "transport"))
                  /\ UNCHANGED <<req, token>>
             ELSE IF ~TokenOK(resp)
             THEN /\ Return(<<>>, Errorf(ErrBadResponse,
                                         StatusLine(resp.status)))
                  /\ UNCHANGED <<req, token>>
             ELSE IF resp.readErr
             THEN /\ Return(<<>>, Errorf(ErrReadingToken, "read"))
                  /\ UNCHANGED <<req, token>>
             ELSE IF Unmarshal(resp.body).err
             THEN /\ Return(<<>>, Errorf(ErrParsingToken, "syntax"))
                  /\ UNCHANGED <<req, token>>
             ELSE /\ token' = Unmarshal(resp.body).Token
                  /\ req' = [req EXCEPT !.Authorization =
                                RetryAuthorization(@, token')]
                  /\ pc' = "DoRetry"
                  /\ UNCHANGED <<digest, err, returned>>
    /\ UNCHANGED <<peer, inputs, outputs, readLocals, fallback, tokenRequest,
                   transport>>

\* the manifest request is sent again, now with the token
DoRetry ==
    /\ pc = "DoRetry"
    /\ \E resp \in RetryAnswers :
          /\ Do("retry", req, resp)
          /\ IF resp.neterr
             THEN Return(<<>>, Errorf(ErrDuring, "transport"))
             ELSE IF ~RetryOK(resp)
             THEN Return(<<>>, Errorf(ErrBadResponse,
                                      StatusLine(resp.status)))
             ELSE ReturnDigest(resp)
    /\ UNCHANGED <<peer, inputs, outputs, readLocals, fallback, req, tokenRequest,
                   token, transport>>

----------------------------------------------------------------------------
(* dataSourceDockerRegistryImageRead *)

\* the reference is parsed and normalized, the credentials are resolved and
\* getImageDigest is called with the modern media types
ReadBegin ==
    /\ pc = "Read"
    /\ pullOpts' = Normalize(parseImageOptions(name))
    /\ username' = authConfig.Username
    /\ password' = authConfig.Password
    /\ fallback' = FALSE
    /\ pc' = "getImageDigest"
    /\ UNCHANGED <<peer, inputs, outputs, req, tokenRequest, token, digest, err,
                   transport, exchanges, returned>>

\* the second call made only when the registry rejected the media types
NeedsFallback_RegistryErrorOnly == ~fallback /\ RegistryError(err)

\* the legacy call made whatever the first call returned
NeedsFallback_Always == ~fallback

\* the legacy call made again for as long as it fails
NeedsFallback_Repeated == err # Nil

\* err != nil after the first call: the second call is due
NeedsFallback == ~fallback /\ err # Nil

\* the error of the first call kept and reported
SurfacedError_First == returned[1].err

\* err at the diag.Errorf call: what the second call returned
SurfacedError == err

\* the first call failed: getImageDigest is called with fallback set
ReadFallback ==
    /\ pc = "Returned" /\ NeedsFallback
    /\ fallback' = TRUE
    /\ pc' = "getImageDigest"
    /\ UNCHANGED <<peer, inputs, outputs, readLocals, req, tokenRequest, token,
                   digest, err, transport, exchanges, returned>>

\* the second call failed too: its error is returned
ReadFail ==
    /\ pc = "Returned" /\ err # Nil /\ ~NeedsFallback
    /\ diags' = FetchError(pullOpts.Repository, pullOpts.Tag,
                        SurfacedError)
    /\ pc' = "Done"
    /\ UNCHANGED <<peer, inputs, id, sha256_digest, readLocals, fallback, req,
                   tokenRequest, token, digest, err, transport, exchanges,
                   returned>>

\* a call succeeded: id and sha256_digest are set
ReadSucceed ==
    /\ pc = "Returned" /\ err = Nil
    /\ id' = digest
    /\ sha256_digest' = digest
    /\ pc' = "Done"
    /\ UNCHANGED <<peer, inputs, diags, readLocals, fallback, req, tokenRequest,
                   token, digest, err, transport, exchanges, returned>>

Next ==
    \/ ReadBegin
    \/ NewManifestRequest
    \/ DoManifest
    \/ DoToken
    \/ DoRetry
    \/ ReadFallback
    \/ ReadFail
    \/ ReadSucceed

Init == InitWith(Names)

Spec == Init /\ [][Next]_vars

\* the normalization alone, over the wider set of references
InitNorm == InitWith(NormNames)

NextNorm == ReadBegin

SpecNorm == InitNorm /\ [][NextNorm]_vars

----------------------------------------------------------------------------------------------------------------------------------------
(* Two lookups at once.  The provider serves the reads of several data     *)
(* sources in goroutines of one process, so http.DefaultClient is shared.  *)
(* The second lookup runs the same code; all it does to the state of the   *)
(* first one is the assignment of client.Transport at the head of each of  *)
(* its calls of getImageDigest, so the model keeps of it the calls it has  *)
(* made.  The write of client.Transport and the read in client.Do are not  *)
(* synchronized: a request meets the transport of either lookup, which the *)
(* interleaving of the steps gives.                                        *)

\* the second lookup calls getImageDigest with the modern media types: the
\* client's transport is replaced
PeerGetImageDigest ==
    /\ peer.pc = "Read"
    /\ transport' = peer.skipVerify
    /\ peer' = [peer EXCEPT !.pc = "Called"]
    /\ UNCHANGED <<inputs, outputs, readLocals, pc, fallback, req,
                   tokenRequest, token, digest, err, exchanges, returned>>

\* its first call failed: it calls getImageDigest with fallback set
PeerFallback ==
    /\ peer.pc = "Called" /\ ~peer.fallback
    /\ transport' = peer.skipVerify
    /\ peer' = [peer EXCEPT !.fallback = TRUE]
    /\ UNCHANGED <<inputs, outputs, readLocals, pc, fallback, req,
                   tokenRequest, token, digest, err, exchanges, returned>>

\* its last call has returned: it ends, with a digest or with an error
PeerEnd ==
    /\ peer.pc = "Called"
    /\ peer' = [peer EXCEPT !.pc = "Done"]
    /\ UNCHANGED <<inputs, outputs, readLocals, pc, fallback, req,
                   tokenRequest, token, digest, err, transport, exchanges,
                   returned>>

\* two lookups whose insecure_skip_verify values differ: the first one
\* verifies certificates, the second one does not
InitConc ==
    /\ InitLookup({<<"a","l","p","i","n","e">>})
    /\ ~insecure_skip_verify
    /\ authConfig.Username = <<>> /\ authConfig.Password = <<>>
    /\ peer = [PeerOff EXCEPT !.pc = "Read", !.skipVerify = TRUE]

NextConc ==
    \/ Next
    \/ PeerGetImageDigest
    \/ PeerFallback
    \/ PeerEnd

SpecConc == InitConc /\ [][NextConc]_vars

----------------------------------------------------------------------------
(* The history of a lookup, by attempt *)

\* the client.Do calls of the attempt with this fallback flag, in order
Attempt(fb) == SelectSeq(exchanges, LAMBDA e : e.fallback = fb)

\* what the attempt returned: empty while it runs, else one entry
Returns(fb) == SelectSeq(returned, LAMBDA r : r.fallback = fb)

\* the number of requests of one kind in the attempt
Count(fb, kind) == Len(SelectSeq(Attempt(fb), LAMBDA e : e.kind = kind))

\* the attempt's initial manifest request was answered with this status
InitialStatus(fb, status) ==
    /\ Len(Attempt(fb)) >= 1
    /\ ~Attempt(fb)[1].answer.neterr
    /\ Attempt(fb)[1].answer.status = status

InitialChallenge(fb) == Attempt(fb)[1].answer.www

----------------------------------------------------------------------------
(* Status-code dispatch *)

\* C1: an attempt whose initial manifest request is answered 200 consists
\* of that one request: it has returned what digest extraction gives (a
\* digest, or the error of reading the body), and it holds no token request
\* and no second manifest request.
C1_OkGoesStraightToDigest ==
    \A fb \in BOOLEAN :
        InitialStatus(fb, 200) =>
            /\ Len(Attempt(fb)) = 1
            /\ Count(fb, "token") = 0 /\ Count(fb, "retry") = 0
            /\ Len(Returns(fb)) = 1
            /\ \/ Returns(fb)[1].err = Nil /\ Returns(fb)[1].digest # <<>>
               \/ Returns(fb)[1].err = Errorf(ErrReadingBody, "read")

\* a legacy attempt with credentials set was answered 200 at once
C1_Witness ==
    /\ InitialStatus(TRUE, 200)
    /\ username # <<>>
    /\ pullOpts.Registry = <<"g","h","c","r",".","i","o">>

\* C2: an attempt whose initial manifest request is answered 401 without a
\* WWW-Authenticate value that begins with "Bearer" has returned an empty
\* digest and the BadCredentials error with the status line, and it holds
\* no token request (nor any other request after the first).
C2_NonBearer401IsBadCredentials ==
    \A fb \in BOOLEAN :
        (InitialStatus(fb, 401) /\ ~HasPrefix(InitialChallenge(fb), <<"B","e","a","r","e","r">>))
        =>  /\ Count(fb, "token") = 0
            /\ Len(Attempt(fb)) = 1
            /\ Len(Returns(fb)) = 1
            /\ Returns(fb)[1].digest = <<>>
            /\ Returns(fb)[1].err = [msg |-> "Bad credentials: ",
                                     detail |-> "401 Unauthorized"]

\* both attempts met a 401, one without header and one with a Basic challenge
C2_Witness ==
    /\ InitialStatus(FALSE, 401) /\ InitialChallenge(FALSE) = <<>>
    /\ InitialStatus(TRUE, 401) /\ InitialChallenge(TRUE) = ChallengeBasic
    /\ pc = "Done"

\* the token request of the attempt was answered 200 with a body that was
\* read and holds JSON
TokenGranted(fb) ==
    \E i \in 1..Len(Attempt(fb)) :
        LET e == Attempt(fb)[i]
        IN  /\ e.kind = "token"
            /\ ~e.answer.neterr /\ e.answer.status = 200
            /\ ~e.answer.readErr /\ ~Unmarshal(e.answer.body).err

BearerChallenged(fb) ==
    InitialStatus(fb, 401) /\ HasPrefix(InitialChallenge(fb), <<"B","e","a","r","e","r">>)

\* C3, as claimed: an attempt that met a Bearer challenge and has returned
\* holds exactly one token request and exactly one retried manifest request.
C3_Original ==
    \A fb \in BOOLEAN :
        (BearerChallenged(fb) /\ Len(Returns(fb)) = 1)
        => (Count(fb, "token") = 1 /\ Count(fb, "retry") = 1)

\* C3, amended: an attempt that met a Bearer challenge holds at most one
\* token request and at most one retried manifest request, the retry after
\* the token request; once it has returned, it holds the retried request
\* exactly when its token request was answered 200 with a body that was
\* read and decoded.
C3_AtMostOneTokenAndRetry ==
    \A fb \in BOOLEAN :
        BearerChallenged(fb) =>
            /\ Count(fb, "token") <= 1 /\ Count(fb, "retry") <= 1
            /\ Count(fb, "manifest") = 1
            /\ Count(fb, "retry") = 1 =>
                  (Len(Attempt(fb)) = 3 /\ Attempt(fb)[2].kind = "token"
                   /\ Attempt(fb)[3].kind = "retry")
            /\ Len(Returns(fb)) = 1 =>
                  (Count(fb, "retry") = 1 <=> TokenGranted(fb))

\* a handshake ran to its end: one token request, one retried request
C3_Witness ==
    /\ BearerChallenged(FALSE)
    /\ Count(FALSE, "token") = 1 /\ Count(FALSE, "retry") = 1
    /\ Len(Returns(FALSE)) = 1

----------------------------------------------------------------------------
(* Fallback *)

\* C4: Read returns an error only after both calls of getImageDigest have
\* returned, the modern one first and the legacy one second, both with an
\* error; and a lookup whose modern call failed, whatever the error, does
\* not end before the legacy call has returned.
C4_LegacyAttemptBeforeError ==
    /\ (pc = "Done" /\ diags # NoDiags) =>
          /\ Len(returned) = 2
          /\ ~returned[1].fallback /\ returned[1].err # Nil
          /\ returned[2].fallback /\ returned[2].err # Nil
    /\ (pc = "Done" /\ Len(returned) >= 1 /\ returned[1].err # Nil) =>
          (Len(returned) = 2 /\ returned[2].fallback)
    /\ (diags # NoDiags) => pc = "Done"

\* the modern call failed on bad credentials, the legacy call on reading
\* the body, and the error was returned
C4_Witness ==
    /\ pc = "Done" /\ diags # NoDiags
    /\ BadCredentials(returned[1].err)
    /\ BodyReadError(returned[2].err)

\* the Authorization values the credentials alone give the manifest request
CredentialAuthorization ==
    IF username = <<>> THEN <<>>
    ELSE IF pullOpts.Registry = <<"g","h","c","r",".","i","o">>
    THEN <<<<"B","e","a","r","e","r"," ">> \o EncodeToString(Bytes(password))>>
    ELSE <<<<"B","a","s","i","c"," ">> \o EncodeToString(Bytes(username \o <<":">> \o password))>>

\* the tokens the attempt was given: the non-empty ones decoded from the
\* responses to its token requests
TokensOf(fb) ==
    {Unmarshal(Attempt(fb)[i].answer.body).Token :
        i \in {j \in 1..Len(Attempt(fb)) : Attempt(fb)[j].kind = "token"}}
    \ {<<>>}

\* C5: no request or auth state passes from one attempt to the other.  The
\* initial manifest request of each attempt carries the Authorization that
\* the credentials give, so the same in both attempts; a token request
\* carries no bearer token; a retried request carries, as its only
\* Authorization value, the token decoded from the token response just
\* before it in its own attempt; an attempt holds at most one such request,
\* and exactly one once it has returned after a token was granted; no
\* legacy request carries a token that only the modern attempt was given.
C5_AttemptsShareNoState ==
    LET cred    == CredentialAuthorization
        modern  == TokensOf(FALSE)
        legacy  == TokensOf(TRUE)
        bearers == {<<"B","e","a","r","e","r"," ">> \o t : t \in modern \cup legacy}
        foreign == {<<"B","e","a","r","e","r"," ">> \o t : t \in modern \ legacy}
        Values(request) ==
            {request.Authorization[k] :
                k \in 1..Len(request.Authorization)}
    IN  /\ \A i \in 1..Len(exchanges) :
              LET e == exchanges[i]
              IN  /\ e.kind = "manifest" =>
                        e.request.Authorization = cred
                  /\ e.kind = "token" =>
                        Values(e.request) \cap bearers = {}
                  /\ e.kind = "retry" =>
                        /\ i > 1
                        /\ exchanges[i - 1].kind = "token"
                        /\ exchanges[i - 1].fallback = e.fallback
                        /\ e.request.Authorization =
                              <<<<"B","e","a","r","e","r"," ">> \o
                                Unmarshal(exchanges[i - 1].answer.body).Token>>
                  /\ e.fallback => Values(e.request) \cap foreign = {}
        /\ \A fb \in BOOLEAN :
              /\ Count(fb, "retry") <= 1
              /\ (Len(Returns(fb)) = 1 /\ TokenGranted(fb)) =>
                    Count(fb, "retry") = 1

\* the modern attempt was given one token and failed, the legacy attempt
\* was given another and sent it
C5_Witness ==
    /\ TokensOf(FALSE) = {Token(1)}
    /\ TokensOf(TRUE) = {Token(2)}
    /\ Count(FALSE, "retry") = 1 /\ Count(TRUE, "retry") = 1
    /\ username # <<>>

----------------------------------------------------------------------------
(* The Authorization of the initial request *)

\* C6, as claimed: the initial manifest request of every attempt carries,
\* when username and password are not both empty, Bearer base64(password)
\* for ghcr.io and Basic base64(username:password) for any other host, and
\* no Authorization when both are empty.
C6_AuthorizationByCredentials ==
    \A i \in 1..Len(exchanges) :
        exchanges[i].kind = "manifest" =>
            exchanges[i].request.Authorization =
                IF username = <<>> /\ password = <<>> THEN <<>>
                ELSE IF pullOpts.Registry = <<"g","h","c","r",".","i","o">>
                THEN <<<<"B","e","a","r","e","r"," ">> \o EncodeToString(Bytes(password))>>
                ELSE <<<<"B","a","s","i","c"," ">> \o
                       EncodeToString(Bytes(username \o <<":">> \o password))>>

\* what the code does instead: the username alone decides; with the
\* credentials (user, tokenPW) the header is the one of the scenario
C6_AuthorizationByUsername ==
    \A i \in 1..Len(exchanges) :
        exchanges[i].kind = "manifest" =>
            /\ exchanges[i].request.Authorization = CredentialAuthorization
            /\ (username = <<"u","s","e","r">> /\ password = <<"t","o","k","e","n","P","W">>) =>
                  exchanges[i].request.Authorization =
                      IF pullOpts.Registry = <<"g","h","c","r",".","i","o">>
                      THEN <<<<"B","e","a","r","e","r"," ","d","G","9","r","Z","W","5","Q","V","w","=","=">>>>
                      ELSE <<<<"B","a","s","i","c"," ","d","X","N","l","c","j","p","0","b","2","t","l","b","l","B","X">>>>

----------------------------------------------------------------------------
(* Digest extraction *)

LowerHex == {HexDigits[i] : i \in 1..Len(HexDigits)}

\* sha256:<64 lowercase hex characters>
IsCanonicalDigest(d) ==
    /\ Len(d) = 71
    /\ Take(d, 7) = <<"s","h","a","2","5","6",":">>
    /\ \A i \in 8..71 : d[i] \in LowerHex

\* the digests of the bodies, as sha256sum prints them
KnownDigest(body) ==
    CASE body = BodySchema2 -> DigestOfSchema2
      [] body = BodySchema1 ->
           <<"s","h","a","2","5","6",":","0","e","9","5","6","1","c","f","b","8","3","d","5","0","9","9","0","a","1","0","3","b","3","8","9","6","f","e","2","4","9","a","1","1","f","e","2","7","f","a","2","8","9","8","5","4","4","8","1","8","7","f","9","3","e","c","1","2","1","1","6","d","7","2">>
      [] body = <<>> ->
           <<"s","h","a","2","5","6",":","e","3","b","0","c","4","4","2","9","8","f","c","1","c","1","4","9","a","f","b","f","4","c","8","9","9","6","f","b","9","2","4","2","7","a","e","4","1","e","4","6","4","9","b","9","3","4","c","a","4","9","5","9","9","1","b","7","8","5","2","b","8","5","5">>

LastAnswer == exchanges[Len(exchanges)].answer

\* C7, as claimed: the digest of every successful lookup has the form
\* sha256:<64 lowercase hex characters>.
C7_Original ==
    (pc = "Done" /\ diags = NoDiags) =>
        (IsCanonicalDigest(id) /\ IsCanonicalDigest(sha256_digest))

\* C7, amended: the digest of a successful lookup is the value of the
\* Docker-Content-Digest header of the 200 response when that value is not
\* empty, whatever its form, and has the form sha256:<64 lowercase hex
\* characters> when the response carries no such value.
C7_HeaderVerbatimElseCanonical ==
    (pc = "Done" /\ diags = NoDiags) =>
        /\ sha256_digest = id
        /\ LastAnswer.status = 200
        /\ IF LastAnswer.dcd # <<>> THEN id = LastAnswer.dcd
           ELSE IsCanonicalDigest(id)

\* a lookup succeeded on a response without digest header
C7_Witness ==
    /\ pc = "Done" /\ diags = NoDiags
    /\ LastAnswer.dcd = <<>>
    /\ IsCanonicalDigest(id)

\* the attempt has returned from getDigestFromResponse: its last request
\* was a manifest request answered 200
Extracted(fb) ==
    /\ Len(Returns(fb)) = 1
    /\ Len(Attempt(fb)) >= 1
    /\ LET e == Attempt(fb)[Len(Attempt(fb))]
       IN  e.kind \in {"manifest", "retry"} /\ ~e.answer.neterr
           /\ e.answer.status = 200

ExtractedFrom(fb) == Attempt(fb)[Len(Attempt(fb))].answer

\* C8, as claimed: digest extraction returns the header value when it is
\* not empty and otherwise "sha256:" and the hash of the body.
C8_Original ==
    \A fb \in BOOLEAN :
        Extracted(fb) =>
            /\ Returns(fb)[1].err = Nil
            /\ Returns(fb)[1].digest =
                  IF ExtractedFrom(fb).dcd # <<>> THEN ExtractedFrom(fb).dcd
                  ELSE KnownDigest(ExtractedFrom(fb).body)

\* C8, amended: digest extraction returns the header value unchanged when
\* it is not empty, whether or not the body can be read; otherwise, when
\* the body is read, "sha256:" and the SHA-256 of the body in lowercase
\* hex, so equal bodies give equal digests; and otherwise, when reading the
\* body fails, an empty digest and the error of reading the body.
C8_HeaderElseHashElseReadError ==
    \A fb \in BOOLEAN :
        Extracted(fb) =>
            LET a == ExtractedFrom(fb)
                r == Returns(fb)[1]
            IN  IF a.dcd # <<>> THEN r.digest = a.dcd /\ r.err = Nil
                ELSE IF ~a.readErr
                THEN r.digest = KnownDigest(a.body) /\ r.err = Nil
                ELSE r.digest = <<>>
                     /\ r.err = [msg |-> "Error reading registry response body: %s",
                                 detail |-> "read"]

\* a header value was returned from a response whose body cannot be read,
\* and the other attempt hashed a body
C8_Witness ==
    /\ Extracted(TRUE)
    /\ ExtractedFrom(TRUE).dcd = DigestOfSchema2 /\ ExtractedFrom(TRUE).readErr
    /\ Extracted(FALSE)
    /\ ExtractedFrom(FALSE).dcd = <<>> /\ ExtractedFrom(FALSE).readErr

----------------------------------------------------------------------------
(* All or nothing *)

\* C9: id and sha256_digest are set only by a lookup that has ended without
\* error, and then both to the digest the last call returned, which is not
\* empty; every call of getImageDigest returns either an error and an empty
\* digest or no error and a digest; a lookup whose two calls failed ends
\* with an error and leaves id and sha256_digest unset.
C9_AllOrNothing ==
    /\ (id # <<>> \/ sha256_digest # <<>>) =>
          /\ pc = "Done" /\ diags = NoDiags
          /\ returned[Len(returned)].err = Nil
          /\ id = returned[Len(returned)].digest
          /\ sha256_digest = returned[Len(returned)].digest
    /\ \A i \in 1..Len(returned) :
          IF returned[i].err # Nil THEN returned[i].digest = <<>>
          ELSE returned[i].digest # <<>>
    /\ (pc = "Done" /\ returned[Len(returned)].err # Nil) =>
          (diags # NoDiags /\ id = <<>> /\ sha256_digest = <<>>)
    /\ (pc = "Done" /\ returned[Len(returned)].err = Nil) =>
          (diags = NoDiags /\ id # <<>>)
    /\ diags # NoDiags =>
          diags = FetchError(pullOpts.Repository, pullOpts.Tag,
                             returned[Len(returned)].err)

\* the modern call failed on reading a body and the legacy call succeeded
C9_Witness ==
    /\ pc = "Done" /\ Len(returned) = 2
    /\ BodyReadError(returned[1].err)
    /\ id = returned[2].digest /\ id # <<>>

----------------------------------------------------------------------------
(* Normalization *)

\* the repository once the registry is filtered out of it
Filtered(parsed) ==
    IF parsed.Registry = <<>> THEN parsed.Repository
    ELSE ReplaceFirst(parsed.Repository, parsed.Registry \o <<"/">>, <<>>)

\* C10: of a parsed reference, an empty registry becomes
\* registry-1.docker.io and any other registry is kept; "library/" is put
\* before the repository exactly when the resolved registry is
\* registry-1.docker.io and the repository holds no "/"; an empty tag
\* becomes "latest" and any other tag is kept.  So "alpine",
\* "myregistry.com/foo/bar:1.2" and "consul:1.9" give the triples of the
\* specification.
C10_Normalization ==
    pc = "getImageDigest" =>
        LET parsed == parseImageOptions(name)
            repo   == Filtered(parsed)
        IN  /\ pullOpts.Registry =
                  IF parsed.Registry = <<>> THEN <<"r","e","g","i","s","t","r","y","-","1",".","d","o","c","k","e","r",".","i","o">>
                  ELSE parsed.Registry
            /\ pullOpts.Repository =
                  IF pullOpts.Registry = <<"r","e","g","i","s","t","r","y","-","1",".","d","o","c","k","e","r",".","i","o">>
                     /\ \A i \in 1..Len(repo) : repo[i] # "/"
                  THEN <<"l","i","b","r","a","r","y","/">> \o repo
                  ELSE repo
            /\ pullOpts.Tag = IF parsed.Tag = <<>> THEN <<"l","a","t","e","s","t">> ELSE parsed.Tag
            /\ name = <<"a","l","p","i","n","e">> =>
                  pullOpts = [Registry |-> <<"r","e","g","i","s","t","r","y","-","1",".","d","o","c","k","e","r",".","i","o">>,
                              Repository |-> <<"l","i","b","r","a","r","y","/","a","l","p","i","n","e">>,
                              Tag |-> <<"l","a","t","e","s","t">>]
            /\ name = <<"m","y","r","e","g","i","s","t","r","y",".","c","o","m","/","f","o","o","/","b","a","r",":","1",".","2">> =>
                  pullOpts = [Registry |-> <<"m","y","r","e","g","i","s","t","r","y",".","c","o","m">>,
                              Repository |-> <<"f","o","o","/","b","a","r">>, Tag |-> <<"1",".","2">>]
            /\ name = <<"c","o","n","s","u","l",":","1",".","9">> =>
                  (pullOpts.Repository = <<"l","i","b","r","a","r","y","/","c","o","n","s","u","l">>
                   /\ pullOpts.Tag = <<"1",".","9">>)

\* a reference of the Docker Hub with a "/" in the repository, normalized
C10_Witness ==
    /\ pc = "getImageDigest"
    /\ name = <<"r","e","g","i","s","t","r","y","-","1",".","d","o","c","k","e","r",".","i","o","/","f","o","o","/","b","a","r">>
    /\ pullOpts = [Registry |-> <<"r","e","g","i","s","t","r","y","-","1",".","d","o","c","k","e","r",".","i","o">>,
                   Repository |-> <<"f","o","o","/","b","a","r">>, Tag |-> <<"l","a","t","e","s","t">>]

\* C11, as claimed: the triple passed to getImageDigest has a non-empty
\* registry, a non-empty repository and a non-empty tag, and for the default
\* registry the repository holds a "/", with "library/" put before it at
\* most once.
C11_TripleNonEmpty ==
    pc = "getImageDigest" =>
        LET repo == Filtered(parseImageOptions(name))
        IN  /\ pullOpts.Registry # <<>>
            /\ pullOpts.Repository # <<>>
            /\ pullOpts.Tag # <<>>
            /\ pullOpts.Registry = DefaultRegistry =>
                  /\ Contains(pullOpts.Repository, <<"/">>)
                  /\ pullOpts.Repository \in {repo, <<"l","i","b","r","a","r","y","/">> \o repo}
                  /\ pullOpts.Repository = <<"l","i","b","r","a","r","y","/">> \o repo =>
                        ~Contains(repo, <<"/">>)

\* what holds of every reference: all of the above but the non-empty
\* repository, which holds whenever the reference names a repository
C11_TripleButRepository ==
    pc = "getImageDigest" =>
        LET repo == Filtered(parseImageOptions(name))
        IN  /\ pullOpts.Registry # <<>>
            /\ pullOpts.Tag # <<>>
            /\ repo # <<>> => pullOpts.Repository # <<>>
            /\ pullOpts.Registry = DefaultRegistry =>
                  /\ Contains(pullOpts.Repository, <<"/">>)
                  /\ pullOpts.Repository \in {repo, <<"l","i","b","r","a","r","y","/">> \o repo}
                  /\ pullOpts.Repository = <<"l","i","b","r","a","r","y","/">> \o repo =>
                        ~Contains(repo, <<"/">>)

----------------------------------------------------------------------------
(* The token response *)

\* the answer to the token request of the attempt, when it has one
HasTokenAnswer(fb) ==
    \E i \in 1..Len(Attempt(fb)) :
        Attempt(fb)[i].kind = "token" /\ ~Attempt(fb)[i].answer.neterr

TokenAnswer(fb) ==
    LET i == CHOOSE j \in 1..Len(Attempt(fb)) : Attempt(fb)[j].kind = "token"
    IN  Attempt(fb)[i].answer

\* the body is a JSON object with a member named token, in any case of
\* the letters
HasTokenField(body) == Contains(ToLower(body), <<"\"","t","o","k","e","n","\"",":">>)

\* the body is JSON text
IsJSON(body) == body[1] = "{" /\ body[Len(body)] = "}"

\* the token response was 200 and its body was read
TokenBodyRead(fb) ==
    /\ HasTokenAnswer(fb)
    /\ TokenAnswer(fb).status = 200 /\ ~TokenAnswer(fb).readErr

\* C12, as claimed: an attempt whose token request is answered 200 with a
\* body that is not JSON, or that is JSON without a token field, has
\* returned an empty digest and the TokenParseError, and holds no retried
\* manifest request.
C12_NoTokenIsTokenParseError ==
    \A fb \in BOOLEAN :
        (TokenBodyRead(fb)
         /\ (~IsJSON(TokenAnswer(fb).body)
             \/ ~HasTokenField(TokenAnswer(fb).body)))
        =>  /\ Count(fb, "retry") = 0
            /\ Len(Returns(fb)) = 1
            /\ Returns(fb)[1].digest = <<>>
            /\ TokenParseError(Returns(fb)[1].err)

\* what holds: a body that is not JSON gives the TokenParseError and no
\* retried request; a JSON object, with a token field or without, gives
\* the retried request, which carries "Bearer " and the token, the empty
\* string when the field is missing
C12_OnlyInvalidJSONIsTokenParseError ==
    \A fb \in BOOLEAN :
        TokenBodyRead(fb) =>
            IF ~IsJSON(TokenAnswer(fb).body)
            THEN /\ Count(fb, "retry") = 0
                 /\ Len(Returns(fb)) = 1
                 /\ Returns(fb)[1].digest = <<>>
                 /\ TokenParseError(Returns(fb)[1].err)
            ELSE /\ \A i \in 1..Len(returned) :
                       returned[i].fallback = fb =>
                           ~TokenParseError(returned[i].err)
                 /\ (pc = "DoRetry" /\ fallback = fb) =>
                       req.Authorization =
                           IF HasTokenField(TokenAnswer(fb).body)
                           THEN <<<<"B","e","a","r","e","r"," ">> \o
                                  Unmarshal(TokenAnswer(fb).body).Token>>
                           ELSE <<<<"B","e","a","r","e","r"," ">>>>

----------------------------------------------------------------------------
(* The transport of concurrent lookups *)

\* C13, as claimed: every request of a lookup is sent over a transport
\* configured with the InsecureSkipVerify of that lookup, never with the one
\* of a lookup that runs at the same time (stated of the first of the two
\* lookups; the second runs the same code).
C13_TransportPerCall ==
    \A i \in 1..Len(exchanges) :
        exchanges[i].skipVerify = insecure_skip_verify

\* what holds: a lookup that runs alone sends every request over a
\* transport with its own flag
C13_TransportOfLoneLookup ==
    peer.pc = "Off" =>
        \A i \in 1..Len(exchanges) :
            exchanges[i].skipVerify = insecure_skip_verify

----------------------------------------------------------------------------
(* The round trips of a lookup *)

\* the place of a request in the order of the code: the manifest request,
\* the token request and the retried request of the modern call, then those
\* of the legacy call
Rank(e) ==
    (IF e.fallback THEN 3 ELSE 0)
    + (CASE e.kind = "manifest" -> 1 [] e.kind = "token" -> 2
         [] e.kind = "retry" -> 3)

\* C14, as claimed: a lookup, both attempts included, performs at most four
\* round trips.
C14_AtMostFourRoundTrips == Len(exchanges) <= 4

\* C14, amended: a lookup performs at most six round trips, at most three
\* in each attempt (manifest request, token request, retried manifest
\* request), one after another in that order, each answered before the
\* next is sent, and those of the legacy attempt after those of the modern
\* one.
C14_AtMostSixRoundTrips ==
    /\ Len(exchanges) <= 6
    /\ \A fb \in BOOLEAN : Len(Attempt(fb)) <= 3
    /\ \A i \in 1..(Len(exchanges) - 1) :
          Rank(exchanges[i]) < Rank(exchanges[i + 1])
    /\ pc \in {"Do", "DoToken", "DoRetry"} =>
          Len(exchanges) < Rank([fallback |-> fallback,
                                 kind |-> CASE pc = "Do" -> "manifest"
                                            [] pc = "DoToken" -> "token"
                                            [] pc = "DoRetry" -> "retry"])

\* a lookup of six round trips: both attempts ran the bearer handshake
C14_Witness ==
    /\ pc = "Done"
    /\ Len(exchanges) = 6
    /\ Count(FALSE, "retry") = 1 /\ Count(TRUE, "retry") = 1

----------------------------------------------------------------------------
(* The error of a failed lookup *)

\* C15: a lookup whose two attempts failed returns one error; its text ends
\* with the text of the error the legacy attempt returned, holds the text
\* of the error of the modern attempt nowhere when the two differ, and
\* names the repository and the tag as repository:tag.  So "alpine", with
\* bad credentials at the modern attempt and a 404 at the legacy one, gives
\* the text of the 404.
C15_LegacyErrorWithContext ==
    (pc = "Done" /\ Len(returned) = 2 /\ returned[2].err # Nil) =>
        LET modern == ErrorText(returned[1].err)
            legacy == ErrorText(returned[2].err)
        IN  /\ Len(diags) = 1
            /\ HasSuffix(diags[1].summary, <<" ","f","r","o","m"," ","r","e","g","i","s","t","r","y",":"," ">> \o legacy)
            /\ modern # legacy => ~Contains(diags[1].summary, modern)
            /\ Contains(diags[1].summary,
                        pullOpts.Repository \o <<":">> \o pullOpts.Tag)
            /\ (/\ name = <<"a","l","p","i","n","e">>
                /\ returned[1].err = Errorf(ErrBadCredentials,
                                            "401 Unauthorized")
                /\ returned[2].err = Errorf(ErrBadResponse, "404 Not Found"))
               => diags[1].summary =
                     <<"G","o","t"," ","e","r","r","o","r"," ","w","h","e","n"," ","a","t","t","e","m","p","t","i","n","g"," ","t","o"," ","f","e","t","c","h"," ","i","m","a","g","e"," ","v","e","r","s","i","o","n"," ","l","i","b","r","a","r","y","/","a","l","p","i","n","e",":","l","a","t","e","s","t"," ","f","r","o","m"," ","r","e","g","i","s","t","r","y",":"," ","G","o","t"," ","b","a","d"," ","r","e","s","p","o","n","s","e"," ","f","r","o","m"," ","r","e","g","i","s","t","r","y",":"," ","4","0","4"," ","N","o","t"," ","F","o","u","n","d">>

\* the modern attempt failed on bad credentials, the legacy one on a 404
C15_Witness ==
    /\ pc = "Done" /\ Len(returned) = 2
    /\ name = <<"g","h","c","r",".","i","o","/","f","o","o","/","b","a","r",":","v","1">>
    /\ BadCredentials(returned[1].err)
    /\ returned[2].err = Errorf(ErrBadResponse, "404 Not Found")
    /\ diags # NoDiags

----------------------------------------------------------------------------
(* The legacy attempt *)

\* C16: the legacy attempt is made at most once, and only after the modern
\* attempt has returned an error.  A lookup whose modern attempt succeeded
\* sends no legacy request and ends with the digest of the modern attempt;
\* a lookup whose legacy attempt succeeded ends without error, with the
\* digest of the legacy attempt.
C16_LegacyOnceAfterModernFailure ==
    /\ Len(Returns(TRUE)) <= 1
    /\ Count(TRUE, "manifest") <= 1
    /\ (fallback \/ Attempt(TRUE) # <<>> \/ Returns(TRUE) # <<>>) =>
          /\ Len(returned) >= 1
          /\ ~returned[1].fallback
          /\ returned[1].err # Nil
    /\ (Len(returned) >= 1 /\ returned[1].err = Nil) =>
          /\ Len(returned) = 1
          /\ ~fallback
          /\ Attempt(TRUE) = <<>>
          /\ pc \in {"Returned", "Done"}
          /\ pc = "Done" =>
                (/\ id = returned[1].digest
                 /\ sha256_digest = returned[1].digest
                 /\ diags = NoDiags)
    /\ (pc = "Done" /\ Len(returned) = 2 /\ returned[2].err = Nil) =>
          /\ returned[2].fallback
          /\ id = returned[2].digest
          /\ sha256_digest = returned[2].digest
          /\ diags = NoDiags

\* the modern attempt met a 404, the legacy attempt a manifest: the lookup
\* ended with the digest of the legacy attempt
C16_Witness ==
    /\ pc = "Done" /\ Len(returned) = 2
    /\ returned[1].err = Errorf(ErrBadResponse, "404 Not Found")
    /\ returned[2].err = Nil
    /\ id = KnownDigest(BodySchema1)
    /\ Len(Attempt(TRUE)) = 1

----------------------------------------------------------------------------
(* The retried manifest request *)

\* C17: every retried manifest request follows the token request of its
\* attempt and carries one Authorization value, "Bearer " and the token
\* decoded from the response to that token request, in place of the value
\* the initial request had; its URL and its Accept values are those of the
\* initial request of the attempt.  An answer to it other than 200, a 401
\* included, makes the attempt return an empty digest and the
\* RegistryError with the status line.
C17_RetryCarriesTokenOnly ==
    \A i \in 1..Len(exchanges) :
        exchanges[i].kind = "retry" =>
            LET e       == exchanges[i]
                initial == Attempt(e.fallback)[1]
                r       == Returns(e.fallback)
            IN  /\ i >= 3
                /\ exchanges[i - 1].kind = "token"
                /\ exchanges[i - 1].fallback = e.fallback
                /\ Len(e.request.Authorization) = 1
                /\ e.request.Authorization[1] =
                      <<"B","e","a","r","e","r"," ">> \o Unmarshal(exchanges[i - 1].answer.body).Token
                /\ exchanges[i - 1].answer.body = <<"{","\"","t","o","k","e","n","\"",":","\"","t","o","k","1","\"","}">> =>
                      e.request.Authorization = <<<<"B","e","a","r","e","r"," ","t","o","k","1">>>>
                /\ initial.kind = "manifest"
                /\ initial.request.Authorization = CredentialAuthorization
                /\ e.request.URL = initial.request.URL
                /\ e.request.Accept = initial.request.Accept
                /\ (~e.answer.neterr /\ e.answer.status # 200) =>
                      /\ Len(r) = 1
                      /\ r[1].digest = <<>>
                      /\ RegistryError(r[1].err)
                      /\ r[1].err.detail = StatusLine(e.answer.status)

\* a retried request of a lookup with credentials for ghcr.io, with the
\* token in place of the Bearer value of the password, answered 401
C17_Witness ==
    /\ pullOpts.Registry = <<"g","h","c","r",".","i","o">> /\ username = <<"u","s","e","r">>
    /\ Count(TRUE, "retry") = 1
    /\ Attempt(TRUE)[1].request.Authorization = <<<<"B","e","a","r","e","r"," ","d","G","9","r","Z","W","5","Q","V","w","=","=">>>>
    /\ Attempt(TRUE)[3].request.Authorization = <<<<"B","e","a","r","e","r"," ","t","o","k","2">>>>
    /\ Attempt(TRUE)[3].answer.status = 401
    /\ Len(Returns(TRUE)) = 1

----------------------------------------------------------------------------
(* The Accept values *)

\* C18: every manifest request of the modern attempt, the initial and the
\* retried one, carries the four Accept values (docker v2 manifest, docker
\* v2 manifest list, OCI manifest, OCI index) and no other; every manifest
\* request of the legacy attempt carries the v1+prettyjws type as its only
\* Accept value.
C18_AcceptByAttempt ==
    \A i \in 1..Len(exchanges) :
        exchanges[i].kind \in {"manifest", "retry"} =>
            LET accept == exchanges[i].request.Accept
                values == {accept[k] : k \in 1..Len(accept)}
            IN  IF ~exchanges[i].fallback
                THEN /\ Len(accept) = 4
                     /\ values =
                           {<<"a","p","p","l","i","c","a","t","i","o","n","/","v","n","d",".","d","o","c","k","e","r",".","d","i","s","t","r","i","b","u","t","i","o","n",".","m","a","n","i","f","e","s","t",".","v","2","+","j","s","o","n">>,
                            <<"a","p","p","l","i","c","a","t","i","o","n","/","v","n","d",".","d","o","c","k","e","r",".","d","i","s","t","r","i","b","u","t","i","o","n",".","m","a","n","i","f","e","s","t",".","l","i","s","t",".","v","2","+","j","s","o","n">>,
                            <<"a","p","p","l","i","c","a","t","i","o","n","/","v","n","d",".","o","c","i",".","i","m","a","g","e",".","m","a","n","i","f","e","s","t",".","v","1","+","j","s","o","n">>,
                            <<"a","p","p","l","i","c","a","t","i","o","n","/","v","n","d",".","o","c","i",".","i","m","a","g","e",".","i","n","d","e","x",".","v","1","+","j","s","o","n">>}
                ELSE accept =
                       <<<<"a","p","p","l","i","c","a","t","i","o","n","/","v","n","d",".","d","o","c","k","e","r",".","d","i","s","t","r","i","b","u","t","i","o","n",".","m","a","n","i","f","e","s","t",".","v","1","+","p","r","e","t","t","y","j","w","s">>>>

\* both attempts sent an initial and a retried manifest request
C18_Witness ==
    /\ Count(FALSE, "manifest") = 1 /\ Count(FALSE, "retry") = 1
    /\ Count(TRUE, "manifest") = 1 /\ Count(TRUE, "retry") = 1
    /\ Len(Attempt(TRUE)[3].request.Accept) = 1
    /\ Len(Attempt(FALSE)[3].request.Accept) = 4

----------------------------------------------------------------------------
(* The token request *)

\* the challenge a token request answers: the WWW-Authenticate value of the
\* exchange before it
ChallengeOf(i) == parseAuthHeader(exchanges[i - 1].answer.www).opts

\* the token request was rejected: the attempt has returned an empty digest
\* and the RegistryError with the status line, and the token request is its
\* last request
TokenRejected(i) ==
    LET e == exchanges[i]
        r == Returns(e.fallback)
    IN  (~e.answer.neterr /\ e.answer.status # 200) =>
            /\ Len(r) = 1
            /\ r[1].digest = <<>>
            /\ RegistryError(r[1].err)
            /\ r[1].err.detail = StatusLine(e.answer.status)
            /\ Attempt(e.fallback)[Len(Attempt(e.fallback))] = e
            /\ Count(e.fallback, "retry") = 0

\* C19, as claimed: every token request goes to the realm of the parsed
\* challenge with the query parameters service and scope of the challenge
\* (URL-encoded, in either order, the order of the parameters of a query
\* being without meaning); it carries HTTP basic auth when username and
\* password are not both empty, whatever the host, and no Authorization
\* when both are empty; an answer other than 200 makes the attempt return
\* the RegistryError without another request.
C19_TokenRequestByCredentials ==
    \A i \in 1..Len(exchanges) :
        exchanges[i].kind = "token" =>
            LET e       == exchanges[i]
                realm   == MapGet(ChallengeOf(i), <<"r","e","a","l","m">>)
                service == QueryEscape(MapGet(ChallengeOf(i), <<"s","e","r","v","i","c","e">>))
                scope   == QueryEscape(MapGet(ChallengeOf(i), <<"s","c","o","p","e">>))
            IN  /\ i >= 2
                /\ exchanges[i - 1].kind = "manifest"
                /\ exchanges[i - 1].fallback = e.fallback
                /\ e.request.URL \in
                      {realm \o <<"?","s","e","r","v","i","c","e","=">> \o service \o <<"&","s","c","o","p","e","=">> \o scope,
                       realm \o <<"?","s","c","o","p","e","=">> \o scope \o <<"&","s","e","r","v","i","c","e","=">> \o service}
                /\ e.request.Authorization =
                      IF username = <<>> /\ password = <<>> THEN <<>>
                      ELSE <<<<"B","a","s","i","c"," ">> \o
                             EncodeToString(Bytes(username \o <<":">> \o password))>>
                /\ TokenRejected(i)

\* what holds: the query is scope=<scope>&service=<service>, the keys in
\* sorted order and the values URL-encoded; the username alone decides
\* about the basic auth, for ghcr.io as for any host; a rejected token
\* request ends the attempt with the RegistryError
C19_TokenRequestByUsername ==
    \A i \in 1..Len(exchanges) :
        exchanges[i].kind = "token" =>
            LET e       == exchanges[i]
                realm   == MapGet(ChallengeOf(i), <<"r","e","a","l","m">>)
                service == QueryEscape(MapGet(ChallengeOf(i), <<"s","e","r","v","i","c","e">>))
                scope   == QueryEscape(MapGet(ChallengeOf(i), <<"s","c","o","p","e">>))
            IN  /\ i >= 2
                /\ exchanges[i - 1].kind = "manifest"
                /\ exchanges[i - 1].fallback = e.fallback
                /\ e.request.URL =
                      realm \o <<"?","s","c","o","p","e","=">> \o scope \o <<"&","s","e","r","v","i","c","e","=">> \o service
                /\ exchanges[i - 1].answer.www = ChallengeFull =>
                      e.request.URL =
                          <<"h","t","t","p","s",":","/","/","a","u","t","h",".","e","x","a","m","p","l","e","/","t","o","k","e","n","?","s","c","o","p","e","=","r","e","p","o","s","i","t","o","r","y","%","3","A","f","o","o","%","2","F","b","a","r","%","3","A","p","u","l","l","&","s","e","r","v","i","c","e","=","r","e","g","i","s","t","r","y",".","e","x","a","m","p","l","e">>
                /\ e.request.Authorization =
                      IF username = <<>> THEN <<>>
                      ELSE <<<<"B","a","s","i","c"," ">> \o
                             EncodeToString(Bytes(username \o <<":">> \o password))>>
                /\ (username = <<"u","s","e","r">> /\ password = <<"t","o","k","e","n","P","W">>) =>
                      e.request.Authorization = <<<<"B","a","s","i","c"," ","d","X","N","l","c","j","p","0","b","2","t","l","b","l","B","X">>>>
                /\ e.request.Accept = <<>>
                /\ TokenRejected(i)

----------------------------------------------------------------------------
(* Parsing the challenge *)

\* the attempt went on after the challenge: to the token request, or to a
\* returned error
WentOn(fb) ==
    \/ pc = "DoToken" /\ fallback = fb
    \/ Count(fb, "token") = 1
    \/ Len(Returns(fb)) = 1 /\ Returns(fb)[1].err # Nil

\* C20, as claimed: parsing a challenge never fails.  For every
\* WWW-Authenticate value that begins with "Bearer", parseAuthHeader
\* returns a mapping, and the attempt goes on to the token request or
\* returns an error; the lookup never aborts.
C20_ParsingNeverAborts ==
    /\ pc # "Panicked"
    /\ \A fb \in BOOLEAN :
          BearerChallenged(fb) =>
              /\ ~parseAuthHeader(InitialChallenge(fb)).panic
              /\ WentOn(fb)

\* the value has parameters after "Bearer " and each of its parts between
\* commas holds a "="
WellFormed(header) ==
    /\ Contains(header, <<" ">>)
    /\ LET parts == Split(SplitN2(header, <<" ">>)[2], <<",">>)
       IN  \A k \in 1..Len(parts) : Contains(parts[k], <<"=">>)

\* what holds: a challenge that is well formed is parsed to a mapping that
\* holds the keys it names and no other, a missing realm, service or scope
\* being absent, and the attempt goes on; for any other value that begins
\* with "Bearer", the bare word, a part without "=" or a quoted value with
\* a comma among them, the lookup aborts with a run-time panic, and no
\* error is returned, no legacy attempt made and no result set.
C20_MalformedChallengeAborts ==
    /\ \A fb \in BOOLEAN :
          BearerChallenged(fb) =>
              LET auth == parseAuthHeader(InitialChallenge(fb))
              IN  IF WellFormed(InitialChallenge(fb))
                  THEN /\ ~auth.panic
                       /\ WentOn(fb)
                       /\ InitialChallenge(fb) = ChallengeFull =>
                             auth.opts =
                                 [k \in {<<"r","e","a","l","m">>, <<"s","e","r","v","i","c","e">>, <<"s","c","o","p","e">>} |->
                                    CASE k = <<"r","e","a","l","m">> ->
                                           <<"h","t","t","p","s",":","/","/","a","u","t","h",".","e","x","a","m","p","l","e","/","t","o","k","e","n">>
                                      [] k = <<"s","e","r","v","i","c","e">> -> <<"r","e","g","i","s","t","r","y",".","e","x","a","m","p","l","e">>
                                      [] k = <<"s","c","o","p","e">> ->
                                           <<"r","e","p","o","s","i","t","o","r","y",":","f","o","o","/","b","a","r",":","p","u","l","l">>]
                       /\ InitialChallenge(fb) = ChallengeNoRealm =>
                             DOMAIN auth.opts = {<<"s","e","r","v","i","c","e">>}
                  ELSE /\ auth.panic
                       /\ pc = "Panicked"
                       /\ fallback = fb
                       /\ Len(Attempt(fb)) = 1
                       /\ Returns(fb) = <<>>
                       /\ diags = NoDiags /\ id = <<>>
    /\ pc = "Panicked" => BearerChallenged(fallback)

====
